---------------------------- MODULE Spec2Model ----------------------------
(***************************************************************************)
(* Model of the Lycee Charles de Gaulle backend (src/main.py,              *)
(* src/schemas.py): the canteen menu endpoints over a document store and   *)
(* the simulated Pronote timetable / absences endpoints.                   *)
(*                                                                         *)
(* Text that the code parses, formats or compares (dates, times) is a      *)
(* sequence of code points, so that strptime, strftime and MongoDB's       *)
(* binary string comparison are computed and not assumed.  Opaque text     *)
(* (dish names, subjects, rooms, error messages) is a TLA+ string.         *)
(***************************************************************************)
EXTENDS Integers, Sequences, FiniteSets, TLC

VARIABLES store, nextId, dbUp, today, ticks, posts, req, resp, called, prev

vars == <<store, nextId, dbUp, today, ticks, posts, req, resp, called, prev>>

---------------------------------------------------------------------------
(* Bounds of the model.                                                    *)

\* successful inserts explored on top of the initial store
MaxPosts == 1
\* midnights (UTC) the clock passes
MaxTicks == 1

---------------------------------------------------------------------------
(* Program constants.                                                      *)

\* get_menu_range: get_documents(..., limit=100)
RangeLimit == 100
\* get_today_menu: get_documents(..., limit=1)
TodayLimit == 1
\* get_pronote_timetable: while cur <= end_date and i < 10
MaxEntries == 10
\* datetime.strptime("08:00", "%H:%M"): minutes after midnight
SlotStart == 480
\* timedelta(hours=1, minutes=30)
SlotLength == 90
\* datetime.MAXYEAR / datetime.MINYEAR, the range of datetime.date
MAXYEAR == 9999
MINYEAR == 1

subjects == <<"Maths", "Français", "Physique", "Histoire", "Anglais">>
rooms == <<"B201", "A105", "Lab1", "C303", "L001">>

---------------------------------------------------------------------------
(* Text as code points.                                                    *)

Dash == 45
Colon == 58
Space == 32
Zero == 48

IsDigit(c) == c \in Zero .. (Zero + 9)
DigitVal(c) == c - Zero
Chr(n) == Zero + n

\* Python str / BSON string order: code point by code point, a proper
\* prefix first.
LexLeq(a, b) ==
    LET n == IF Len(a) <= Len(b) THEN Len(a) ELSE Len(b)
        diff == {i \in 1 .. n : a[i] # b[i]}
    IN  IF a = b THEN TRUE
        ELSE IF diff = {} THEN Len(a) <= Len(b)
        ELSE LET k == CHOOSE i \in diff : \A j \in diff : i <= j
             IN  a[k] < b[k]

\* Optional[str]: None, or a string
None == [some |-> FALSE, val |-> <<>>]
Some(s) == [some |-> TRUE, val |-> s]
\* Python truthiness of an Optional[str]: None and "" are falsy
Truthy(o) == o.some /\ o.val # <<>>

---------------------------------------------------------------------------
(* datetime.date                                                           *)

IsLeap(y) == (y % 4 = 0) /\ ((y % 100 # 0) \/ (y % 400 = 0))

DaysInMonth(y, m) ==
    IF m = 2 THEN (IF IsLeap(y) THEN 29 ELSE 28)
    ELSE IF m \in {4, 6, 9, 11} THEN 30 ELSE 31

MkDate(y, m, d) == [year |-> y, month |-> m, day |-> d]

\* date.__lt__ / __le__: compares (year, month, day)
DateLt(a, b) ==
    \/ a.year < b.year
    \/ a.year = b.year /\ a.month < b.month
    \/ a.year = b.year /\ a.month = b.month /\ a.day < b.day
DateLeq(a, b) == a = b \/ DateLt(a, b)

\* date + timedelta(days=1); OverflowError past date.max
CanAddDay(d) ==
    ~(d.year = MAXYEAR /\ d.month = 12 /\ d.day = 31)
NextDay(d) ==
    IF d.day < DaysInMonth(d.year, d.month) THEN MkDate(d.year, d.month, d.day + 1)
    ELSE IF d.month < 12 THEN MkDate(d.year, d.month + 1, 1)
    ELSE MkDate(d.year + 1, 1, 1)

\* date.toordinal(): proleptic Gregorian day number, 0001-01-01 is day 1
RECURSIVE DaysBeforeMonth(_, _)
DaysBeforeMonth(y, m) ==
    IF m = 1 THEN 0 ELSE DaysBeforeMonth(y, m - 1) + DaysInMonth(y, m - 1)
ToOrdinal(d) ==
    LET y == d.year - 1
    IN  y * 365 + (y \div 4) - (y \div 100) + (y \div 400)
          + DaysBeforeMonth(d.year, d.month) + d.day

---------------------------------------------------------------------------
(* strftime                                                                *)

Pad2(n) == <<Chr(n \div 10), Chr(n % 10)>>
Pad4(n) == <<Chr(n \div 1000), Chr((n \div 100) % 10), Chr((n \div 10) % 10), Chr(n % 10)>>

\* date.strftime("%Y-%m-%d") (years of four digits)
StrftimeYmd(d) == Pad4(d.year) \o <<Dash>> \o Pad2(d.month) \o <<Dash>> \o Pad2(d.day)
\* datetime.strftime("%H:%M") of a time of day given in minutes
StrftimeHM(mins) == Pad2((mins \div 60) % 24) \o <<Colon>> \o Pad2(mins % 60)

---------------------------------------------------------------------------
(* datetime.strptime(s, "%Y-%m-%d").date()                                 *)
(* The format compiles to the regular expression                           *)
(*   (\d\d\d\d)-(1[0-2]|0[1-9]|[1-9])-(3[01]|[12]\d|0[1-9]|[1-9]| [1-9])   *)
(* matched at the start of s; text left over is an error; the fields then  *)
(* go through the date constructor, which checks their ranges.             *)

\* %m: 1[0-2] | 0[1-9] | [1-9]
MonthField(t) ==
    \/ Len(t) = 2 /\ t[1] = Chr(1) /\ t[2] \in Chr(0) .. Chr(2)
    \/ Len(t) = 2 /\ t[1] = Chr(0) /\ t[2] \in Chr(1) .. Chr(9)
    \/ Len(t) = 1 /\ t[1] \in Chr(1) .. Chr(9)
\* %d: 3[01] | [12]\d | 0[1-9] | [1-9] | " "[1-9]
DayField(t) ==
    \/ Len(t) = 2 /\ t[1] = Chr(3) /\ t[2] \in Chr(0) .. Chr(1)
    \/ Len(t) = 2 /\ t[1] \in Chr(1) .. Chr(2) /\ IsDigit(t[2])
    \/ Len(t) = 2 /\ t[1] = Chr(0) /\ t[2] \in Chr(1) .. Chr(9)
    \/ Len(t) = 1 /\ t[1] \in Chr(1) .. Chr(9)
    \/ Len(t) = 2 /\ t[1] = Space /\ t[2] \in Chr(1) .. Chr(9)

RECURSIVE FieldVal(_)
FieldVal(t) ==
    IF t = <<>> THEN 0
    ELSE IF Len(t) = 1 THEN (IF IsDigit(t[1]) THEN DigitVal(t[1]) ELSE 0)
    ELSE FieldVal(SubSeq(t, 1, Len(t) - 1)) * 10
           + (IF IsDigit(t[Len(t)]) THEN DigitVal(t[Len(t)]) ELSE 0)

\* position of the dash closing the month field (7 or 8), 0 when there is none
MonthEnd(s) ==
    IF Len(s) >= 7 /\ s[7] = Dash THEN 7
    ELSE IF Len(s) >= 8 /\ s[8] = Dash THEN 8
    ELSE 0

\* the longest day field the expression matches right after the second dash
\* (0 when none): alternatives are tried in order, two characters first
DayMatchLen(s, e) ==
    IF Len(s) >= e + 2 /\ DayField(SubSeq(s, e + 1, e + 2)) THEN 2
    ELSE IF Len(s) >= e + 1 /\ DayField(SubSeq(s, e + 1, e + 1)) THEN 1
    ELSE 0

ParseErr(msg) == [ok |-> FALSE, date |-> MkDate(0, 0, 0), err |-> msg]
ParseOk(d) == [ok |-> TRUE, date |-> d, err |-> ""]

StrptimeYmd(s) ==
    LET e == MonthEnd(s)
        headOk == /\ Len(s) >= 5
                  /\ \A i \in 1 .. 4 : IsDigit(s[i])
                  /\ s[5] = Dash
                  /\ e # 0
                  /\ MonthField(SubSeq(s, 6, e - 1))
        dl == DayMatchLen(s, e)
    IN  IF ~headOk \/ dl = 0 THEN ParseErr("time data does not match format")
        ELSE IF Len(s) > e + dl THEN ParseErr("unconverted data remains")
        ELSE LET y == FieldVal(SubSeq(s, 1, 4))
                 m == FieldVal(SubSeq(s, 6, e - 1))
                 d == FieldVal(SubSeq(s, e + 1, e + dl))
             IN  IF y < MINYEAR THEN ParseErr("year is out of range")
                 ELSE IF d > DaysInMonth(y, m) THEN ParseErr("day is out of range for month")
                 ELSE ParseOk(MkDate(y, m, d))

---------------------------------------------------------------------------
(* Schemas (src/schemas.py) and request validation.                        *)
(* A JSON body is raw: each field is present or absent.  Dish and type     *)
(* names are opaque text; dates are code-point strings.                    *)

\* an absent / present opaque text field of a raw JSON object
Absent == [some |-> FALSE, val |-> ""]
Present(v) == [some |-> TRUE, val |-> v]

\* MenuItem: dish and type are both required
MenuItemOk(it) == it.dish.some /\ it.type.some
MenuItem(it) == [dish |-> it.dish.val, type |-> it.type.val]

\* CanteenMenuDay with date declared Optional: only the items are checked
CanteenMenuDayErrorsDateOptional(raw) ==
    IF raw.items.some
    THEN {[loc |-> "items.dish", index |-> i] :
              i \in {j \in 1 .. Len(raw.items.val) : ~raw.items.val[j].dish.some}}
         \cup
         {[loc |-> "items.type", index |-> i] :
              i \in {j \in 1 .. Len(raw.items.val) : ~raw.items.val[j].type.some}}
    ELSE {}

\* CanteenMenuDay: date is required; items defaults to the empty list
CanteenMenuDayErrors(raw) ==
    (IF raw.date.some THEN {} ELSE {[loc |-> "date", index |-> 0]})
    \cup (IF raw.items.some
          THEN {[loc |-> "items.dish", index |-> i] :
                    i \in {j \in 1 .. Len(raw.items.val) : ~raw.items.val[j].dish.some}}
               \cup
               {[loc |-> "items.type", index |-> i] :
                    i \in {j \in 1 .. Len(raw.items.val) : ~raw.items.val[j].type.some}}
          ELSE {})
CanteenMenuDayOk(raw) == CanteenMenuDayErrors(raw) = {}
CanteenMenuDay(raw) ==
    [date  |-> raw.date.val,
     items |-> IF raw.items.some
               THEN [i \in 1 .. Len(raw.items.val) |-> MenuItem(raw.items.val[i])]
               ELSE <<>>]

---------------------------------------------------------------------------
(* Persistence adapter (database module).                                  *)

HexDigit(n) == IF n < 10 THEN Zero + n ELSE 97 + (n - 10)
Pow16(k) == IF k = 0 THEN 1 ELSE IF k = 1 THEN 16 ELSE IF k = 2 THEN 256
            ELSE IF k = 3 THEN 4096 ELSE IF k = 4 THEN 65536 ELSE 1048576
\* str(ObjectId): 24 lower-case hexadecimal digits (identifiers below 16^6)
ObjectIdStr(oid) ==
    [k \in 1 .. 24 |-> IF k <= 18 THEN Zero ELSE HexDigit((oid \div Pow16(24 - k)) % 16)]

DbUnavailable == "Database not available"

\* the document insert_one stores for a validated CanteenMenuDay
NewDocument(oid, day) == [id |-> oid, date |-> day.date, items |-> day.items]

\* create_document: raises when the connection is unavailable, else inserts
\* one document under a fresh identifier and returns the identifier as text
create_document(st, oid, up, day) ==
    IF ~up
    THEN [ok |-> FALSE, err |-> DbUnavailable, store |-> st, id |-> <<>>]
    ELSE [ok |-> TRUE, err |-> "", store |-> Append(st, NewDocument(oid, day)),
          id |-> ObjectIdStr(oid)]

\* a find() filter on the date field: {"date": v} or {"date": {"$gte", "$lte"}}
Matches(f, doc) ==
    IF f.kind = "eq" THEN doc.date = f.gte
    ELSE LexLeq(f.gte, doc.date) /\ LexLeq(doc.date, f.lte)

\* find(f).limit(limit): the matching documents in storage order, cut at limit
FirstMatches(st, f, limit) ==
    LET found == SelectSeq(st, LAMBDA doc : Matches(f, doc))
    IN  IF Len(found) <= limit THEN found ELSE SubSeq(found, 1, limit)

\* get_documents: raises when the connection is unavailable, else the first
\* `limit` matching documents in storage order
get_documents(st, up, f, limit) ==
    IF ~up THEN [ok |-> FALSE, err |-> DbUnavailable, docs |-> <<>>]
    ELSE [ok |-> TRUE, err |-> "", docs |-> FirstMatches(st, f, limit)]

---------------------------------------------------------------------------
(* Responses.                                                              *)

Ok(body) == [status |-> 200, body |-> body, detail |-> "", errors |-> {}]
\* raise HTTPException(status_code=500, detail=str(e))
ServerError(msg) == [status |-> 500, body |-> <<>>, detail |-> msg, errors |-> {}]
\* the framework's answer to a body that fails validation
Unprocessable(errs) == [status |-> 422, body |-> <<>>, detail |-> "validation", errors |-> errs]

---------------------------------------------------------------------------
(* Canteen menu handlers.                                                  *)

\* _serialize_menu reading a key the documents do not have, so that the
\* default [] of doc.get is what is serialized
_serialize_menu_without_items(doc) ==
    [id |-> ObjectIdStr(doc.id), date |-> doc.date, items |-> <<>>]

\* _serialize_menu: MenuOut(id=str(_id), date=date, items=[MenuItem(**item)])
_serialize_menu(doc) ==
    [id    |-> ObjectIdStr(doc.id),
     date  |-> doc.date,
     items |-> [i \in 1 .. Len(doc.items) |->
                   [dish |-> doc.items[i].dish, type |-> doc.items[i].type]]]

\* {"date": today}
TodayFilter(t) == [kind |-> "eq", gte |-> t, lte |-> t]
\* the range filter with its two bounds exchanged
RangeFilterSwapped(start, end) == [kind |-> "range", gte |-> end, lte |-> start]

\* {"date": {"$gte": start, "$lte": end}}
RangeFilter(start, end) == [kind |-> "range", gte |-> start, lte |-> end]

\* create_menu_day answering success: false instead of raising
create_menu_day_swallowing(st, oid, up, day) ==
    LET r == create_document(st, oid, up, day)
    IN  IF r.ok
        THEN [resp |-> Ok(<<[success |-> TRUE, id |-> r.id]>>), store |-> r.store]
        ELSE [resp |-> Ok(<<[success |-> FALSE, id |-> r.id]>>), store |-> r.store]

\* create_menu_day replacing the documents already stored for the day
create_menu_day_replacing(st, oid, up, day) ==
    LET kept == SelectSeq(st, LAMBDA doc : doc.date # day.date)
        r == create_document(IF up THEN kept ELSE st, oid, up, day)
    IN  IF r.ok
        THEN [resp |-> Ok(<<[success |-> TRUE, id |-> r.id]>>), store |-> r.store]
        ELSE [resp |-> ServerError(r.err), store |-> r.store]

\* create_menu_day: the response and the store after it
create_menu_day(st, oid, up, day) ==
    LET r == create_document(st, oid, up, day)
    IN  IF r.ok
        THEN [resp |-> Ok(<<[success |-> TRUE, id |-> r.id]>>), store |-> r.store]
        ELSE [resp |-> ServerError(r.err), store |-> r.store]

\* get_today_menu raising when no document is found
get_today_menu_raising(st, up, now) ==
    LET r == get_documents(st, up, TodayFilter(StrftimeYmd(now)), TodayLimit)
    IN  IF ~r.ok THEN ServerError(r.err)
        ELSE IF r.docs = <<>> THEN ServerError("list index out of range")
        ELSE Ok(<<_serialize_menu(r.docs[1])>>)

\* get_today_menu: None is the empty body
get_today_menu(st, up, now) ==
    LET r == get_documents(st, up, TodayFilter(StrftimeYmd(now)), TodayLimit)
    IN  IF ~r.ok THEN ServerError(r.err)
        ELSE IF r.docs = <<>> THEN Ok(<<>>)
        ELSE Ok(<<_serialize_menu(r.docs[1])>>)

\* get_menu_range
get_menu_range(st, up, start, end) ==
    LET r == get_documents(st, up, RangeFilter(start, end), RangeLimit)
    IN  IF ~r.ok THEN ServerError(r.err)
        ELSE Ok([i \in 1 .. Len(r.docs) |-> _serialize_menu(r.docs[i])])

---------------------------------------------------------------------------
(* Pronote handlers (simulation).                                          *)

TimetableEntry(cur, i) ==
    [date    |-> StrftimeYmd(cur),
     start   |-> StrftimeHM(SlotStart),
     end     |-> StrftimeHM(SlotStart + SlotLength),
     subject |-> subjects[(i % Len(subjects)) + 1],
     room    |-> rooms[(i % Len(rooms)) + 1],
     teacher |-> "M./Mme X",
     group   |-> "2nde A"]

\* while cur <= end_date and i < 10: append; cur += timedelta(days=1); i += 1
RECURSIVE TimetableLoop(_, _, _, _)
TimetableLoop(cur, end_date, i, results) ==
    IF DateLeq(cur, end_date) /\ i < MaxEntries
    THEN IF CanAddDay(cur)
         THEN TimetableLoop(NextDay(cur), end_date, i + 1,
                            Append(results, TimetableEntry(cur, i)))
         ELSE ServerError("date value out of range")
    ELSE Ok(results)

\* get_pronote_timetable
get_pronote_timetable(start, end, now) ==
    LET ps == IF Truthy(start) THEN StrptimeYmd(start.val) ELSE ParseOk(now)
        \* end_date = start_date is executed while start_date is still today
        pe == IF Truthy(end) THEN StrptimeYmd(end.val) ELSE ParseOk(now)
    IN  IF ~ps.ok THEN ServerError(ps.err)
        ELSE IF ~pe.ok THEN ServerError(pe.err)
        ELSE LET start_date == ps.date
                 end_date == IF DateLt(pe.date, start_date) THEN start_date ELSE pe.date
             IN  TimetableLoop(start_date, end_date, 0, <<>>)

AbsenceRecord(day) ==
    [date |-> day, start |-> <<49, 48, 58, 48, 48>>, end |-> <<49, 50, 58, 48, 48>>,
     justified |-> FALSE, reason |-> None]

\* get_pronote_absences parsing req.end as the timetable handler does
get_pronote_absences_reading_end(start, end, now) ==
    LET ps == IF Truthy(start) THEN StrptimeYmd(start.val) ELSE ParseOk(now)
        pe == IF Truthy(end) THEN StrptimeYmd(end.val) ELSE ParseOk(now)
    IN  IF ~ps.ok THEN ServerError(ps.err)
        ELSE IF ~pe.ok THEN ServerError(pe.err)
        ELSE Ok(<<AbsenceRecord(StrftimeYmd(ps.date))>>)

\* get_pronote_absences: req.end is never read
get_pronote_absences(start, end, now) ==
    LET ps == IF Truthy(start) THEN StrptimeYmd(start.val) ELSE ParseOk(now)
    IN  IF ~ps.ok THEN ServerError(ps.err)
        ELSE Ok(<<AbsenceRecord(StrftimeYmd(ps.date))>>)

---------------------------------------------------------------------------
(* Inputs.                                                                 *)

\* the UTC date at start-up: the day before a leap day
Today0 == MkDate(2024, 2, 28)

D(y, m, d) == StrftimeYmd(MkDate(y, m, d))

\* "2024-02"
Feb2024 == <<50, 48, 50, 52, 45, 48, 50>>
\* "2024-2-28": accepted by strptime, not zero-padded
Unpadded == <<50, 48, 50, 52, 45, 50, 45, 50, 56>>
\* "20240101": not in the format
Garbage == <<50, 48, 50, 52, 48, 49, 48, 49>>
\* "2023-02-29": in the format, not a day of the calendar
NoSuchDay == <<50, 48, 50, 51, 45, 48, 50, 45, 50, 57>>

Salade == [dish |-> Present("salade"), type |-> Present("entree")]
Poulet == [dish |-> Present("poulet"), type |-> Present("plat")]
NoDish == [dish |-> Absent, type |-> Present("plat")]
NoType == [dish |-> Present("tarte"), type |-> Absent]

NoItems == [some |-> FALSE, val |-> <<>>]
Items(s) == [some |-> TRUE, val |-> s]

MenuDates == {D(2024, 2, 28), D(2024, 2, 29)}

\* bodies that CanteenMenuDay accepts
ValidPayloads ==
    {[date |-> Some(D(2024, 2, 28)), items |-> Items(<<Poulet, Salade>>)],
     [date |-> Some(D(2024, 2, 29)), items |-> Items(<<Salade, Poulet>>)],
     [date |-> Some(D(2024, 2, 29)), items |-> NoItems]}
\* bodies it rejects: no date, an item without dish, an item without type
InvalidPayloads ==
    {[date |-> None, items |-> Items(<<Salade>>)],
     [date |-> Some(D(2024, 2, 28)), items |-> Items(<<Salade, NoDish>>)],
     [date |-> Some(D(2024, 2, 29)), items |-> Items(<<NoType>>)]}
Payloads == ValidPayloads \cup InvalidPayloads

\* start / end of GET /api/menu
RangeArgs == {Feb2024, D(2024, 2, 28), D(2024, 2, 29)}

\* start / end of the Pronote requests
DateTexts ==
    {D(2024, 1, 1), D(2024, 1, 3), D(2024, 2, 27), D(2024, 2, 29), D(2024, 3, 15),
     D(9999, 12, 30), D(9999, 12, 31), Unpadded, NoSuchDay, Garbage}
PronoteArgs == {None, Some(<<>>)} \cup {Some(s) : s \in DateTexts}
\* the few Pronote arguments explored next to the menu endpoints
FewStarts == {None, Some(D(2024, 2, 27))}
FewEnds == {None}

Credentials == [url |-> "https://pronote.example", username |-> "eleve", password |-> "secret"]

\* the store a process may find at start-up: empty, or the documents that
\* n earlier inserts of the same day left
Inserted(n) ==
    [i \in 1 .. n |->
        NewDocument(i, [date |-> D(2024, 2, 28),
                        items |-> <<[dish |-> "salade", type |-> "entree"]>>])]
InitialStores == {Inserted(0), Inserted(RangeLimit - 1), Inserted(RangeLimit)}

---------------------------------------------------------------------------
(* The state machine.                                                      *)

NoPayload == [date |-> None, items |-> NoItems]
\* a request, with what the handler reads of the environment while it runs:
\* the UTC date (the handlers that call utcnow) and the state of the storage
\* connection (the menu handlers)
Request(op, payload, start, end) ==
    [op |-> op, payload |-> payload, start |-> start, end |-> end,
     creds |-> IF op \in {"timetable", "absences"} THEN Credentials
               ELSE [url |-> "", username |-> "", password |-> ""],
     at |-> IF op \in {"today", "timetable", "absences"} THEN today ELSE Today0,
     up |-> IF op \in {"post", "today", "range"} THEN dbUp ELSE TRUE]

\* what the previous request was, when it was an insert that succeeded:
\* the day inserted and how many documents of that date were stored before
NoInsert == [inserted |-> FALSE, date |-> <<>>, items |-> <<>>, matching |-> 0]
Insert(day, n) == [inserted |-> TRUE, date |-> day.date, items |-> day.items, matching |-> n]

\* the stored documents dated d
Dated(st, d) == {i \in 1 .. Len(st) : st[i].date = d}

Init ==
    /\ store \in InitialStores
    /\ nextId = Len(store) + 1
    /\ dbUp \in BOOLEAN
    /\ today = Today0
    /\ ticks = 0
    /\ posts = 0
    /\ req = [Request("none", NoPayload, None, None) EXCEPT !.up = TRUE]
    /\ resp = Ok(<<>>)
    /\ called = {}
    /\ prev = NoInsert

\* POST /api/menu
PostMenu(raw) ==
    /\ posts < MaxPosts
    /\ req' = Request("post", raw, None, None)
    /\ IF ~CanteenMenuDayOk(raw)
       THEN /\ resp' = Unprocessable(CanteenMenuDayErrors(raw))
            /\ called' = {}
            /\ prev' = NoInsert
            /\ UNCHANGED <<store, nextId, posts>>
       ELSE LET day == CanteenMenuDay(raw)
                r == create_menu_day(store, nextId, dbUp, day)
            IN  /\ resp' = r.resp
                /\ called' = {"create_document"}
                /\ store' = r.store
                /\ nextId' = IF r.store # store THEN nextId + 1 ELSE nextId
                /\ posts' = IF r.store # store THEN posts + 1 ELSE posts
                /\ prev' = IF r.resp.status = 200
                           THEN Insert(day, Cardinality(Dated(store, day.date)))
                           ELSE NoInsert
    /\ UNCHANGED <<dbUp, today, ticks>>

\* GET /api/menu/today
GetTodayMenu ==
    /\ req' = Request("today", NoPayload, None, None)
    /\ resp' = get_today_menu(store, dbUp, today)
    /\ called' = {"get_documents"}
    /\ prev' = NoInsert
    /\ UNCHANGED <<store, nextId, dbUp, today, ticks, posts>>

\* GET /api/menu?start=&end=
GetMenuRange(start, end) ==
    /\ req' = Request("range", NoPayload, Some(start), Some(end))
    /\ resp' = get_menu_range(store, dbUp, start, end)
    /\ called' = {"get_documents"}
    /\ prev' = prev
    /\ UNCHANGED <<store, nextId, dbUp, today, ticks, posts>>

\* POST /api/pronote/timetable
PronoteTimetable(start, end) ==
    /\ req' = Request("timetable", NoPayload, start, end)
    /\ resp' = get_pronote_timetable(start, end, today)
    /\ called' = {}
    /\ prev' = NoInsert
    /\ UNCHANGED <<store, nextId, dbUp, today, ticks, posts>>

\* POST /api/pronote/absences
PronoteAbsences(start, end) ==
    /\ req' = Request("absences", NoPayload, start, end)
    /\ resp' = get_pronote_absences(start, end, today)
    /\ called' = {}
    /\ prev' = NoInsert
    /\ UNCHANGED <<store, nextId, dbUp, today, ticks, posts>>

\* midnight UTC passes
Tick ==
    /\ ticks < MaxTicks
    /\ today' = NextDay(today)
    /\ ticks' = ticks + 1
    /\ UNCHANGED <<store, nextId, dbUp, posts, req, resp, called, prev>>

\* the connection to the store is lost / comes back
StorageDown ==
    /\ dbUp
    /\ dbUp' = FALSE
    /\ UNCHANGED <<store, nextId, today, ticks, posts, req, resp, called, prev>>
StorageUp ==
    /\ ~dbUp
    /\ dbUp' = TRUE
    /\ UNCHANGED <<store, nextId, today, ticks, posts, req, resp, called, prev>>

Next ==
    \/ \E raw \in Payloads : PostMenu(raw)
    \/ GetTodayMenu
    \/ \E s \in RangeArgs, e \in RangeArgs : GetMenuRange(s, e)
    \/ \E s \in FewStarts, e \in FewEnds : PronoteTimetable(s, e)
    \/ \E s \in FewStarts, e \in FewEnds : PronoteAbsences(s, e)
    \/ Tick
    \/ StorageDown
    \/ StorageUp

Spec == Init /\ [][Next]_vars

\* the Pronote endpoints alone, over every argument
PronoteInit ==
    /\ Init
    /\ store = Inserted(0)
    /\ dbUp
NextPronote ==
    \/ \E s \in PronoteArgs, e \in PronoteArgs : PronoteTimetable(s, e)
    \/ \E s \in PronoteArgs, e \in PronoteArgs : PronoteAbsences(s, e)
    \/ Tick

SpecPronote == PronoteInit /\ [][NextPronote]_vars

---------------------------------------------------------------------------
(* Vocabulary of the properties.                                           *)

\* a <= b in lexicographic order, stated by the first place they differ
StrLeq(a, b) ==
    \/ /\ Len(a) <= Len(b)
       /\ \A i \in 1 .. Len(a) : a[i] = b[i]
    \/ \E k \in 1 .. Len(a) :
          /\ k <= Len(b)
          /\ \A i \in 1 .. (k - 1) : a[i] = b[i]
          /\ a[k] < b[k]

\* the body is rejected by CanteenMenuDay: no date, or an item without
\* dish or without type
Malformed(raw) ==
    \/ ~raw.date.some
    \/ /\ raw.items.some
       /\ \E i \in 1 .. Len(raw.items.val) :
             ~raw.items.val[i].dish.some \/ ~raw.items.val[i].type.some

MenuOp(r) == r.op \in {"post", "today", "range"}
\* a menu request that reaches the persistence adapter
StorageOp(r) == r.op \in {"today", "range"} \/ (r.op = "post" /\ ~Malformed(r.payload))

\* the stored documents in the inclusive range [s, e]
InRange(st, s, e) == {i \in 1 .. Len(st) : StrLeq(s, st[i].date) /\ StrLeq(st[i].date, e)}

\* an argument that names a calendar day
IsDay(o) == Truthy(o) /\ StrptimeYmd(o.val).ok
DayOf(o) == StrptimeYmd(o.val).date
Min2(a, b) == IF a <= b THEN a ELSE b

T0800 == <<48, 56, 58, 48, 48>>
T0930 == <<48, 57, 58, 51, 48>>
T1000 == <<49, 48, 58, 48, 48>>
T1200 == <<49, 50, 58, 48, 48>>

---------------------------------------------------------------------------
(* C1.  POST /api/menu followed by GET /api/menu over the inserted date.   *)

RoundTrip ==
    /\ req.op = "range"
    /\ resp.status = 200
    /\ prev.inserted
    /\ req.start.val = prev.date
    /\ req.end.val = prev.date
ReturnsInserted ==
    \E i \in 1 .. Len(resp.body) :
        /\ resp.body[i].date = prev.date
        /\ Len(resp.body[i].items) = Len(prev.items)
        /\ \A k \in 1 .. Len(prev.items) : resp.body[i].items[k] = prev.items[k]

\* C1 as stated: for every valid payload p and every prior state of the
\* store, a successful POST /api/menu with p followed by
\* GET /api/menu?start=p.date&end=p.date returns a day dated p.date whose
\* items equal p.items in the same order.
C1_AnyPriorStore == RoundTrip => ReturnsInserted

\* C1 amended: the same, for every prior state of the store that holds
\* fewer than 100 documents dated p.date.
C1_RoundTripBelowLimit == (RoundTrip /\ prev.matching < RangeLimit) => ReturnsInserted

\* the inserted day is the 100th of its date, and is returned
C1_Witness ==
    /\ RoundTrip
    /\ prev.matching = RangeLimit - 1
    /\ Len(prev.items) = 2
    /\ ReturnsInserted

---------------------------------------------------------------------------
(* C2.  GET /api/menu?start=s&end=e.                                       *)

\* C2: the answer holds at most 100 days, every day d of it has
\* s <= d.date <= e in lexicographic order (both bounds inclusive), every
\* stored document in that range is returned when there are at most 100 of
\* them, and the answer is the empty sequence, not an error, when e < s.
C2_RangeQuery ==
    (req.op = "range" /\ req.up) =>
        LET s == req.start.val
            e == req.end.val
            hits == InRange(store, s, e)
        IN  /\ resp.status = 200
            /\ Len(resp.body) <= RangeLimit
            /\ \A i \in 1 .. Len(resp.body) :
                  StrLeq(s, resp.body[i].date) /\ StrLeq(resp.body[i].date, e)
            /\ Cardinality(hits) <= RangeLimit =>
                  /\ Len(resp.body) = Cardinality(hits)
                  /\ \A h \in hits : \E i \in 1 .. Len(resp.body) :
                        /\ resp.body[i].id = ObjectIdStr(store[h].id)
                        /\ resp.body[i].date = store[h].date
            /\ (e # s /\ StrLeq(e, s)) => resp.body = <<>>

\* more than 100 stored days are in the range and 100 are returned
C2_Witness ==
    /\ req.op = "range"
    /\ req.up
    /\ Cardinality(InRange(store, req.start.val, req.end.val)) > RangeLimit
    /\ Len(resp.body) = RangeLimit
    /\ req.start.val # req.end.val

---------------------------------------------------------------------------
(* C3 - C6.  The Pronote endpoints.                                        *)

\* entry k (from 0) of a timetable that starts on day S
EntryAsSpecified(entry, S, k) ==
    /\ StrptimeYmd(entry.date).ok
    /\ Len(entry.date) = 10
    /\ ToOrdinal(StrptimeYmd(entry.date).date) = ToOrdinal(S) + k
    /\ entry.start = T0800
    /\ entry.end = T0930
    /\ entry.subject = subjects[(k % 5) + 1]
    /\ entry.room = rooms[(k % 5) + 1]

TimetableIs(S, n) ==
    /\ resp.status = 200
    /\ Len(resp.body) = n
    /\ \A k \in 0 .. (n - 1) : EntryAsSpecified(resp.body[k + 1], S, k)

\* C3 as stated: with start date S and end date E >= S the timetable has
\* exactly min(10, days(S..E)) entries; entry k is dated S + k days, runs
\* 08:00 - 09:30 and takes subject and room k mod 5 of the fixed lists.
C3_OnePerDay ==
    (req.op = "timetable" /\ IsDay(req.start) /\ IsDay(req.end)
        /\ DateLeq(DayOf(req.start), DayOf(req.end))) =>
        TimetableIs(DayOf(req.start),
                    Min2(MaxEntries, ToOrdinal(DayOf(req.end)) - ToOrdinal(DayOf(req.start)) + 1))

\* What the code does for C3's requests: the claim's answer whenever the
\* last entry is dated before 9999-12-31, the last day a date can hold.
C3_ExceptLastDay ==
    (req.op = "timetable" /\ IsDay(req.start) /\ IsDay(req.end)
        /\ DateLeq(DayOf(req.start), DayOf(req.end))
        /\ (CanAddDay(DayOf(req.end))
              \/ ToOrdinal(DayOf(req.end)) - ToOrdinal(DayOf(req.start)) >= MaxEntries)) =>
        TimetableIs(DayOf(req.start),
                    Min2(MaxEntries, ToOrdinal(DayOf(req.end)) - ToOrdinal(DayOf(req.start)) + 1))

\* C4 as stated: with a start date S and no end, whether S is before, on
\* or after the current UTC date, the timetable is exactly one entry,
\* dated S.
C4_EndDefaultsToStart ==
    (req.op = "timetable" /\ IsDay(req.start) /\ ~req.end.some) =>
        TimetableIs(DayOf(req.start), 1)

\* What the code does for C4's requests: without end the timetable runs
\* from S to the current UTC date (one entry when S is today or later).
C4_EndDefaultsToToday ==
    (req.op = "timetable" /\ IsDay(req.start) /\ ~req.end.some /\ CanAddDay(DayOf(req.start))) =>
        TimetableIs(DayOf(req.start),
                    IF DateLt(DayOf(req.start), req.at)
                    THEN Min2(MaxEntries, ToOrdinal(req.at) - ToOrdinal(DayOf(req.start)) + 1)
                    ELSE 1)

\* C5 as stated: with an end earlier than the effective start (the start
\* given, or today when none is given) the timetable is exactly one entry,
\* dated at the start.
C5_EndClampedToStart ==
    (req.op = "timetable" /\ IsDay(req.end) /\ (IsDay(req.start) \/ ~req.start.some)
        /\ DateLt(DayOf(req.end), IF req.start.some THEN DayOf(req.start) ELSE req.at)) =>
        TimetableIs(IF req.start.some THEN DayOf(req.start) ELSE req.at, 1)

\* What the code does for C5's requests: the claim's answer whenever the
\* start is before 9999-12-31.
C5_ExceptLastDay ==
    (req.op = "timetable" /\ IsDay(req.end) /\ (IsDay(req.start) \/ ~req.start.some)
        /\ DateLt(DayOf(req.end), IF req.start.some THEN DayOf(req.start) ELSE req.at)
        /\ CanAddDay(IF req.start.some THEN DayOf(req.start) ELSE req.at)) =>
        TimetableIs(IF req.start.some THEN DayOf(req.start) ELSE req.at, 1)

---------------------------------------------------------------------------
(* C7.  A body that fails validation never reaches the handler.            *)

\* C7: a POST /api/menu whose body fails CanteenMenuDay validation (date
\* missing, an item without dish or type) is rejected before the handler
\* runs: create_document is not called and the stored documents are the
\* same after the request as before it.
C7_RejectedBeforeHandler ==
    [][(req'.op = "post" /\ Malformed(req'.payload)) =>
           /\ resp'.status = 422
           /\ resp'.errors # {}
           /\ "create_document" \notin called'
           /\ store' = store
           /\ nextId' = nextId]_vars

\* a body without date was rejected while the store was reachable
C7_Witness ==
    /\ req.op = "post"
    /\ ~req.payload.date.some
    /\ req.up
    /\ resp.status = 422
    /\ called = {}

---------------------------------------------------------------------------
(* C8.  GET /api/menu/today.                                               *)

\* C8: the answer is null, not an error, whenever no stored document is
\* dated at the current UTC date (the empty store included); when such
\* documents exist it is exactly one serialized day, dated at the current
\* UTC date.
C8_TodayMenu ==
    (req.op = "today" /\ req.up) =>
        LET t == StrftimeYmd(req.at)
            hits == Dated(store, t)
        IN  /\ resp.status = 200
            /\ hits = {} => resp.body = <<>>
            /\ hits # {} =>
                  /\ Len(resp.body) = 1
                  /\ resp.body[1].date = t
                  /\ \E h \in hits :
                        /\ resp.body[1].id = ObjectIdStr(store[h].id)
                        /\ Len(resp.body[1].items) = Len(store[h].items)

\* documents are stored, none of them for today, and the answer is null
C8_Witness ==
    /\ req.op = "today"
    /\ req.up
    /\ store # <<>>
    /\ Dated(store, StrftimeYmd(req.at)) = {}
    /\ resp.status = 200
    /\ resp.body = <<>>

---------------------------------------------------------------------------
(* C9.  Storage failures.                                                  *)

\* C9: when the storage operation fails, POST /api/menu, GET
\* /api/menu/today and GET /api/menu each answer 500 with the failure's
\* message; the failure stays with that request (the store is left as it
\* was), and a request handled while storage is available succeeds, also
\* right after a failed one.
C9_StorageFailure ==
    [][StorageOp(req') =>
           IF req'.up
           THEN resp'.status = 200
           ELSE /\ resp'.status = 500
                /\ resp'.detail = DbUnavailable
                /\ store' = store]_vars

\* a menu request failed with 500 and the connection has come back since
C9_Witness ==
    /\ StorageOp(req)
    /\ ~req.up
    /\ resp.status = 500
    /\ resp.detail = DbUnavailable
    /\ dbUp

---------------------------------------------------------------------------
(* C10.  The menu store is insert-only.                                    *)

\* C10: the only operation that changes the store is a successful
\* POST /api/menu, which adds exactly one document (the validated day, and
\* nothing of any credentials) under an identifier no stored document has;
\* no stored document is modified or removed, and GET /api/menu,
\* GET /api/menu/today and the two Pronote endpoints leave the store as it
\* is.
C10_InsertOnly ==
    [][/\ \/ store' = store
          \/ /\ req'.op = "post"
             /\ resp'.status = 200
             /\ Len(store') = Len(store) + 1
             /\ \A i \in 1 .. Len(store) : store'[i] = store[i]
             /\ \A i \in 1 .. Len(store) : store[i].id # store'[Len(store')].id
             /\ store'[Len(store')] =
                    [id |-> store'[Len(store')].id,
                     date |-> req'.payload.date.val,
                     items |-> [k \in 1 .. Len(req'.payload.items.val) |->
                                   [dish |-> req'.payload.items.val[k].dish.val,
                                    type |-> req'.payload.items.val[k].type.val]]]
       /\ req'.op \in {"today", "range", "timetable", "absences"} => store' = store]_vars

\* a Pronote request was served after an insert and the store kept it
C10_Witness ==
    /\ req.op = "timetable"
    /\ resp.status = 200
    /\ posts = 1
    /\ Len(store) = RangeLimit + 1

===========================================================================
